---- MODULE Spec2Model ----
(***************************************************************************)
(* Southern Water Watch (URT-thaiwater): the radius analysis of App.tsx    *)
(* (distance, radius filter, nearest / worst selectors) and the risk       *)
(* cascade of RiskAnalysisCard.tsx.                                        *)
(*                                                                         *)
(* SpecAnalysis is the analysis and the card over every station list,      *)
(* reference point and radius; Spec is the App component itself: its       *)
(* state hooks, loadData and the handlers of the controls, each followed   *)
(* by the render that recomputes the analysis and the card; SpecControls   *)
(* is the App with the province selector and the locate button in place    *)
(* of the view toggles; SpecNearby is findNearbyRainStations of            *)
(* geoUtils.ts applied to longer rain lists.                               *)
(*                                                                         *)
(* Numbers.  JavaScript numbers are IEEE doubles.  Here a number that the  *)
(* code computes with Math.* is a decimal floating-point value             *)
(* [m |-> mantissa, e |-> exponent] standing for m * 10^e, with a signed   *)
(* mantissa of eight digits (10^7 <= |m| < 10^8, or m = 0 and e = 0) and   *)
(* truncation towards zero.  Coordinates are held as integers in units of  *)
(* 1/10000 degree, rain amounts as whole millimetres, the radius as whole  *)
(* kilometres.                                                             *)
(***************************************************************************)
EXTENDS Integers, Sequences, FiniteSets, TLC

(***************************************************************************)
(* Decimal floating point                                                  *)
(***************************************************************************)
\* F applied to the values of its arguments (each argument evaluated once)
With1(v, F(_)) == CHOOSE r \in { F(x) : x \in {v} } : TRUE

With2(v, w, F(_, _)) == CHOOSE r \in { F(x, y) : x \in {v}, y \in {w} } : TRUE

Abs(x) == IF x < 0 THEN -x ELSE x

Sgn(x) == IF x < 0 THEN -1 ELSE IF x > 0 THEN 1 ELSE 0

\* integer division truncating towards zero (as the sign-symmetric IEEE rounding)
TruncDiv(a, b) == Sgn(a) * Sgn(b) * (Abs(a) \div Abs(b))

RECURSIVE Pow10(_)
Pow10(n) == IF n <= 0 THEN 1 ELSE 10 * Pow10(n - 1)

MantLow == 10000 * 1000

MantHigh == 10000 * 10000

FZero == [m |-> 0, e |-> 0]

FOne == [m |-> 10000000, e |-> -7]

FHalf == [m |-> 50000000, e |-> -8]

\* Math.PI
PI == [m |-> 31415926, e |-> -7]

RECURSIVE FNormal(_, _)
FNormal(m, e) ==
  IF m = 0 THEN FZero
  ELSE IF Abs(m) >= MantHigh THEN FNormal(TruncDiv(m, 10), e + 1)
  ELSE IF Abs(m) < 10000 THEN FNormal(m * 10000, e - 4)
  ELSE IF Abs(m) < MantLow THEN FNormal(m * 10, e - 1)
  ELSE [m |-> m, e |-> e]

\* m * 10^e with a mantissa of eight digits
FNorm(m, e) == With2(m, e, LAMBDA mv, ev : FNormal(mv, ev))

FromInt(n) == FNorm(n, 0)

FNeg(x) == With1(x, LAMBDA v : [m |-> -(v.m), e |-> v.e])

\* x + y: the operand of smaller exponent is shifted right (digits dropped);
\* exponents one apart are added exactly.
AddValues(x, y) ==
  IF x.m = 0 THEN y
  ELSE IF y.m = 0 THEN x
  ELSE LET hi == IF x.e >= y.e THEN x ELSE y
           lo == IF x.e >= y.e THEN y ELSE x
           d  == hi.e - lo.e
       IN IF d = 0 THEN FNorm(hi.m + lo.m, hi.e)
          ELSE IF d = 1 THEN FNorm(hi.m * 10 + lo.m, lo.e)
          ELSE IF d > 8 THEN hi
          ELSE FNorm(hi.m * 10 + TruncDiv(lo.m, Pow10(d - 1)), hi.e - 1)

FAdd(x, y) == With2(x, y, LAMBDA a, b : AddValues(a, b))

FSub(x, y) == With2(x, y, LAMBDA a, b : AddValues(a, [m |-> -(b.m), e |-> b.e]))

\* x * y by four-digit limbs, so that no intermediate product leaves 31 bits
MulValues(x, y) ==
  IF x.m = 0 \/ y.m = 0 THEN FZero
  ELSE LET a   == Abs(x.m)
           b   == Abs(y.m)
           a1  == a \div 10000
           a0  == a % 10000
           b1  == b \div 10000
           b0  == b % 10000
           mid == a1 * b0 + a0 * b1 + ((a0 * b0) \div 10000)
           top == a1 * b1 + (mid \div 10000)
           mag == IF top < MantLow
                    THEN top * 10 + ((mid % 10000) \div 1000)
                    ELSE top
           ex  == IF top < MantLow THEN x.e + y.e + 7 ELSE x.e + y.e + 8
       IN FNorm(Sgn(x.m) * Sgn(y.m) * mag, ex)

FMul(x, y) == With2(x, y, LAMBDA a, b : MulValues(a, b))

\* long division, eight digits after the leading one
RECURSIVE DivDigits(_, _, _, _)
DivDigits(q, r, b, n) ==
  IF n = 0 THEN q ELSE DivDigits(q * 10 + ((r * 10) \div b), (r * 10) % b, b, n - 1)

DivValues(x, y) ==
  IF x.m = 0 THEN FZero
  ELSE LET a == Abs(x.m)
           b == Abs(y.m)
       IN FNorm(Sgn(x.m) * Sgn(y.m) * DivDigits(a \div b, a % b, b, 8), x.e - y.e - 8)

FDiv(x, y) == With2(x, y, LAMBDA a, b : DivValues(a, b))

\* the order of two values: -1, 0 or 1 as x is below, equal to or above y
FCompare(x, y) ==
  With2(x, y, LAMBDA a, b :
    IF Sgn(a.m) # Sgn(b.m) THEN Sgn(Sgn(a.m) - Sgn(b.m))
    ELSE IF a.m = 0 THEN 0
    ELSE IF a.e # b.e THEN (IF a.e > b.e THEN Sgn(a.m) ELSE -Sgn(a.m))
    ELSE Sgn(a.m - b.m))

FLess(x, y) == FCompare(x, y) < 0

FLeq(x, y) == FCompare(x, y) <= 0

RECURSIVE ISqrtIter(_, _)
ISqrtIter(n, x) ==
  With1((x + (n \div x)) \div 2, LAMBDA y : IF y >= x THEN x ELSE ISqrtIter(n, y))

ISqrt(n) == With1(n, LAMBDA v : IF v = 0 THEN 0 ELSE ISqrtIter(v, 46340))

\* one Newton step towards sqrt(x) from s
NewtonStep(x, s) == With1(s, LAMBDA v : FMul(FHalf, FAdd(v, FDiv(x, v))))

\* Math.sqrt for x >= 0: an integer root of the mantissa, then two Newton steps
FSqrt(x) ==
  With1(x, LAMBDA v :
    IF v.m <= 0 THEN FZero
    ELSE NewtonStep(v, NewtonStep(v,
           IF (v.e % 2) = 0 THEN FNorm(ISqrt(v.m), v.e \div 2)
                            ELSE FNorm(ISqrt(v.m * 10), (v.e - 1) \div 2))))

\* Taylor series around 0 in Horner form, terms up to x^13 (sine) and x^12
\* (cosine); the arguments of the analysis are within [-PI, PI].
RECURSIVE SinHorner(_, _)
SinHorner(x2, k) ==
  IF k > 6 THEN FOne
  ELSE FSub(FOne, FMul(FDiv(x2, FromInt((2 * k) * (2 * k + 1))), SinHorner(x2, k + 1)))

\* Math.sin
FSin(x) == With1(x, LAMBDA v : With1(FMul(v, v), LAMBDA v2 : FMul(v, SinHorner(v2, 1))))

RECURSIVE CosHorner(_, _)
CosHorner(x2, k) ==
  IF k > 6 THEN FOne
  ELSE FSub(FOne, FMul(FDiv(x2, FromInt((2 * k - 1) * (2 * k))), CosHorner(x2, k + 1)))

\* Math.cos
FCos(x) == With1(x, LAMBDA v : With1(FMul(v, v), LAMBDA v2 : CosHorner(v2, 1)))

\* arctangent of t in [0, 1]: tan(a/2) from tan(a), twice, then the series
\* u - u^3/3 + u^5/5 - ... in Horner form
AtanHalve(t) == With1(t, LAMBDA v : FDiv(v, FAdd(FOne, FSqrt(FAdd(FOne, FMul(v, v))))))

RECURSIVE AtanHorner(_, _)
AtanHorner(u2, k) ==
  IF k > 6 THEN FZero
  ELSE FSub(FDiv(FOne, FromInt(2 * k - 1)), FMul(u2, AtanHorner(u2, k + 1)))

AtanUnit(t) ==
  With1(AtanHalve(AtanHalve(t)), LAMBDA u :
    With1(FMul(u, u), LAMBDA u2 : FMul(FromInt(4), FMul(u, AtanHorner(u2, 1)))))

FAtanPos(t) ==
  With1(t, LAMBDA v :
    IF FLeq(v, FOne) THEN AtanUnit(v)
    ELSE FSub(FMul(FHalf, PI), AtanUnit(FDiv(FOne, v))))

\* Math.atan2(y, x)
FAtan2(y, x) ==
  With2(y, x, LAMBDA yv, xv :
    IF xv.m = 0 THEN (IF yv.m = 0 THEN FZero
                      ELSE IF yv.m > 0 THEN FMul(FHalf, PI) ELSE FNeg(FMul(FHalf, PI)))
    ELSE With1(FAtanPos(FDiv([yv EXCEPT !.m = Abs(yv.m)], [xv EXCEPT !.m = Abs(xv.m)])),
               LAMBDA t :
                 With1(IF xv.m > 0 THEN t ELSE FSub(PI, t),
                       LAMBDA q : IF yv.m < 0 THEN FNeg(q) ELSE q)))

(***************************************************************************)
(* geoUtils.ts                                                             *)
(***************************************************************************)
\* a coordinate held in 1/10000 degree, as the number of degrees
Degrees(c) == FNorm(c, -4)

deg2rad(deg) == FMul(deg, FDiv(PI, FromInt(180)))

\* mutation: the first term takes the cosines of the latitudes for the sines
\* of the half difference
haversineA_cosineTerm(sLat, sLon, cos1, cos2) ==
  With2(sLat, sLon, LAMBDA sa, so :
    FAdd(FMul(cos1, cos2), FMul(FMul(FMul(cos1, cos2), so), so)))

\* mutation: the cosine of the first latitude is taken twice
haversineA_firstLatitudeTwice(sLat, sLon, cos1, cos2) ==
  With2(sLat, sLon, LAMBDA sa, so :
    FAdd(FMul(sa, sa), FMul(FMul(FMul(cos1, cos1), so), so)))

\* lines 8-11: a, from the two half-angle sines and the two cosines
haversineA(sLat, sLon, cos1, cos2) ==
  With2(sLat, sLon, LAMBDA sa, so :
    FAdd(FMul(sa, sa), FMul(FMul(FMul(cos1, cos2), so), so)))

\* lines 12-13: c = 2 * atan2(sqrt(a), sqrt(1 - a)), d = R * c
haversineD(a) ==
  With1(a, LAMBDA av :
    FMul(FromInt(6371), FMul(FromInt(2), FAtan2(FSqrt(av), FSqrt(FSub(FOne, av))))))

\* Haversine distance in km; lat1, lon1, lat2, lon2 in 1/10000 degree
calculateDistance(lat1, lon1, lat2, lon2) ==
  LET dLat == deg2rad(FSub(Degrees(lat2), Degrees(lat1)))
      dLon == deg2rad(FSub(Degrees(lon2), Degrees(lon1)))
  IN haversineD(haversineA(FSin(FDiv(dLat, FromInt(2))),
                           FSin(FDiv(dLon, FromInt(2))),
                           FCos(deg2rad(Degrees(lat1))),
                           FCos(deg2rad(Degrees(lat2)))))

(***************************************************************************)
(* geoUtils.ts: the radius-free scans                                      *)
(***************************************************************************)
\* the number Infinity: above every distance
Infinity == [m |-> 10000000, e |-> 1000]

\* mutation: a station as far as the nearest so far replaces it (dist <= minDistance)
closer_orEqual(dist, minDistance) == FLeq(dist, minDistance)

\* lines 33 / 54: dist < minDistance
closer(dist, minDistance) == FLess(dist, minDistance)

(***************************************************************************)
(* Data: stations and reference points                                     *)
(***************************************************************************)
\* most stations the two feeds deliver together in one data set
MaxStations == 3

\* A telemetry site: id, position (1/10000 degree) and province.  Water
\* site 1 lies on the centre of the default province, water site 2 0.1 degree
\* north of it; the rain sites lie 0.05 degree east and west of that centre.
WaterSites ==
  { [id |-> 1, tele_station_lat |-> 91380, tele_station_long |-> 993208, province_name |-> "SuratThani"],
    [id |-> 2, tele_station_lat |-> 92380, tele_station_long |-> 993208, province_name |-> "NakhonSiThammarat"] }

RainSites ==
  { [id |-> 1, tele_station_lat |-> 91380, tele_station_long |-> 993708, province_name |-> "SuratThani"],
    [id |-> 2, tele_station_lat |-> 91380, tele_station_long |-> 992708, province_name |-> "NakhonSiThammarat"] }

\* situation_level of the API scale
SituationLevels == 1 .. 5

\* rain_24h in mm, around the two thresholds of the card
RainAmounts == {0, 35, 36, 90}

WaterLevelData(site, level) ==
  [id |-> site.id, tele_station_lat |-> site.tele_station_lat,
   tele_station_long |-> site.tele_station_long, province_name |-> site.province_name,
   situation_level |-> level]

RainData(site, rain) ==
  [id |-> site.id, tele_station_lat |-> site.tele_station_lat,
   tele_station_long |-> site.tele_station_long, province_name |-> site.province_name,
   rain_24h |-> rain]

\* the station lists a feed can deliver: at most n stations of distinct sites,
\* in any order, each with any reading
RECURSIVE WaterLists(_, _)
WaterLists(n, sites) ==
  IF n = 0 THEN {<<>>}
  ELSE {<<>>} \cup
       UNION { { <<WaterLevelData(s, l)>> \o rest : rest \in WaterLists(n - 1, sites \ {s}) } :
               s \in sites, l \in SituationLevels }

RECURSIVE RainLists(_, _)
RainLists(n, sites) ==
  IF n = 0 THEN {<<>>}
  ELSE {<<>>} \cup
       UNION { { <<RainData(s, r)>> \o rest : rest \in RainLists(n - 1, sites \ {s}) } :
               s \in sites, r \in RainAmounts }

\* DEFAULT_PROVINCE (Surat Thani)
DefaultLocation == [lat |-> 91380, lng |-> 993208]

\* the centre handleProvinceChange sets for ALL
AllProvincesLocation == [lat |-> 85000, lng |-> 995000]

\* a pin dragged half way between the two water sites (both equally far)
PinLocation == [lat |-> 91880, lng |-> 993208]

\* a pin dragged 0.02 degree east of the centre (no two sites equally far)
PinEastLocation == [lat |-> 91380, lng |-> 993408]

ReferencePoints == {DefaultLocation, AllProvincesLocation, PinLocation, PinEastLocation}

\* the value of the province selector's first option
ALL_PROVINCES_KEY == "ALL"

\* two of the fourteen entries of SOUTHERN_PROVINCES, with their centres
SOUTHERN_PROVINCES ==
  { [name |-> "SuratThani", lat |-> 91380, lng |-> 993208],
    [name |-> "NakhonSiThammarat", lat |-> 84333, lng |-> 999667] }

DEFAULT_PROVINCE == CHOOSE p \in SOUTHERN_PROVINCES : p.name = "SuratThani"

\* the reference points handleProvinceChange can set
ProvinceCentres ==
  {AllProvincesLocation} \cup { [lat |-> p.lat, lng |-> p.lng] : p \in SOUTHERN_PROVINCES }

\* radius values in km: the two ends of the slider (10, 50), and two values
\* the slider cannot produce but the analysis accepts (0, -1)
RadiusValues == {-1, 0, 10, 50}

(***************************************************************************)
(* State                                                                   *)
(***************************************************************************)
VARIABLES
  allStations,          \* useState: water stations of all provinces
  allRainStations,      \* useState: rain stations of all provinces
  userLocation,         \* useState: the reference point
  radius,               \* useState: km
  analysis,             \* the memo's {nearestWater, worstWater, nearestRain, worstRain}
  card,                 \* what RiskAnalysisCard renders from it
  distances,            \* calculateDistance tabulated over the positions of the model
  loading,              \* useState: a loadData call has started and none has ended since
  lastUpdated,          \* useState: time of the last load that ended, 0 for null
  viewMode,             \* useState: "split", "map" or "analysis"
  showWater,            \* useState: layer visibility
  showRain,             \* useState: layer visibility
  pending,              \* the loadData calls awaiting Promise.all, oldest first; of
                        \* each, whether a call made after it has ended already
  lastResolved,         \* the loadData call whose setters ran last, and what it got
  selectedProvinceName, \* useState: a province name or ALL
  isLocating,           \* useState: the locate button is waiting
  geolocation,          \* navigator.geolocation exists in this browser
  locateRequest,        \* getCurrentPosition: "none", "pending", "error" or a position
  alert,                \* the text of the last alert() shown, "" for none
  nearby                \* what the last findNearbyRainStations call returned

\* the state outside the four dependencies of the analysis
uiVars == <<loading, lastUpdated, viewMode, showWater, showRain, pending,
            lastResolved, selectedProvinceName, isLocating, geolocation, locateRequest,
            alert, nearby>>

\* the state of the data loading
loadVars == <<loading, lastUpdated, pending, lastResolved>>

\* the state of the view controls
viewVars == <<viewMode, showWater, showRain>>

\* the state of the province selector and of the locate button
locateVars == <<selectedProvinceName, isLocating, geolocation, locateRequest, alert>>

vars == <<allStations, allRainStations, userLocation, radius, analysis, card, distances,
          loading, lastUpdated, viewMode, showWater, showRain, pending,
          lastResolved, selectedProvinceName, isLocating, geolocation, locateRequest,
          alert, nearby>>

(***************************************************************************)
(* App.tsx: the analysis memo                                              *)
(***************************************************************************)
null == [absent |-> TRUE]

\* findNearbyRainStations not called yet
NoNearby == [called |-> FALSE, given |-> FALSE, radiusKm |-> 0, items |-> <<>>]

\* calculateDistance over the positions of the model: the value the call of
\* lines 89 / 94 returns for a reference point and a site.  The table is
\* evaluated once, in the initial state, and read from there.
SitePositions ==
  { <<s.tele_station_lat, s.tele_station_long>> : s \in WaterSites \cup RainSites }

DistanceTable ==
  { <<p, q, calculateDistance(p.lat, p.lng, q[1], q[2])>> :
      p \in ReferencePoints \cup ProvinceCentres, q \in SitePositions }

distanceTo(loc, lat, long) ==
  (CHOOSE t \in distances : t[1] = loc /\ t[2] = <<lat, long>>)[3]

\* lines 87-89 / 92-94: stations.map(s => ({station: s, distance: ...}))
withDistance(stations, loc) ==
  With2(stations, loc, LAMBDA st, l :
    [i \in 1 .. Len(st) |->
       [station  |-> st[i],
        distance |-> distanceTo(l, st[i].tele_station_lat, st[i].tele_station_long)]])

\* geoUtils.ts lines 25-37 / 46-58: the forEach over the stations left, from
\* the nearest station and minDistance found so far
RECURSIVE scanNearest(_, _, _)
scanNearest(found, stations, userLoc) ==
  With2(found, stations, LAMBDA f, st :
    IF st = <<>> THEN f
    ELSE With1(distanceTo(userLoc, Head(st).tele_station_lat, Head(st).tele_station_long),
               LAMBDA dist :
                 scanNearest(IF closer(dist, f.distance)
                               THEN [station |-> Head(st), distance |-> dist]
                               ELSE f,
                             Tail(st), userLoc)))

\* geoUtils.ts lines 21-40
findNearestStation(userLoc, stations) ==
  scanNearest([station |-> null, distance |-> Infinity], stations, userLoc)

\* geoUtils.ts lines 42-61
findNearestRainStation(userLoc, stations) ==
  scanNearest([station |-> null, distance |-> Infinity], stations, userLoc)

\* mutation: the boundary is left out (x.distance < radius)
withinRadius_exclusive(x, r) == FLess(x.distance, r)

\* mutation: the comparison is turned round (x.distance >= radius)
withinRadius_outside(x, r) == FLeq(r, x.distance)

\* mutation: the radius is taken by its magnitude
withinRadius_magnitude(x, r) == FLeq(x.distance, [r EXCEPT !.m = Abs(r.m)])

\* the filter predicate x => x.distance <= radius
withinRadius(x, r) == FLeq(x.distance, r)

\* mutation: the filter step is missing
radiusFilter_unfiltered(stations, loc, r) == withDistance(stations, loc)

\* lines 87-95: the array the map/filter chain yields
radiusFilter(stations, loc, r) ==
  With2(withDistance(stations, loc), FromInt(r), LAMBDA mapped, rv :
    SelectSeq(mapped, LAMBDA x : withinRadius(x, rv)))

\* mutation: the rain comparator sorts ascending (a - b)
compare_rainAscending(key, a, b) ==
  CASE key = "distance"  -> FSub(a.distance, b.distance).m
    [] key = "waterRisk" ->
         IF b.station.situation_level # a.station.situation_level
           THEN b.station.situation_level - a.station.situation_level
           ELSE FSub(a.distance, b.distance).m
    [] key = "rainRisk"  -> a.station.rain_24h - b.station.rain_24h

\* mutation: the water comparator breaks severity ties by descending distance
compare_farthestOfTies(key, a, b) ==
  CASE key = "distance"  -> FSub(a.distance, b.distance).m
    [] key = "waterRisk" ->
         IF b.station.situation_level # a.station.situation_level
           THEN b.station.situation_level - a.station.situation_level
           ELSE FSub(b.distance, a.distance).m
    [] key = "rainRisk"  -> b.station.rain_24h - a.station.rain_24h

\* the comparators handed to Array.prototype.sort; the sign is what sort reads
compare(key, a, b) ==
  CASE key = "distance"  -> FSub(a.distance, b.distance).m
    [] key = "waterRisk" ->
         IF b.station.situation_level # a.station.situation_level
           THEN b.station.situation_level - a.station.situation_level
           ELSE FSub(a.distance, b.distance).m
    [] key = "rainRisk"  -> b.station.rain_24h - a.station.rain_24h

\* mutation: an unstable sort, x goes in front of the elements it ties with
RECURSIVE insertStable_beforeTies(_, _, _)
insertStable_beforeTies(sorted, x, key) ==
  With2(sorted, x, LAMBDA sv, xv :
    IF sv = <<>> THEN <<xv>>
    ELSE IF compare(key, Head(sv), xv) >= 0 THEN <<xv>> \o sv
    ELSE <<Head(sv)>> \o insertStable_beforeTies(Tail(sv), xv, key))

\* Array.prototype.sort is stable (ES2019): x goes behind every element that
\* does not compare greater than it
RECURSIVE insertStable(_, _, _)
insertStable(sorted, x, key) ==
  With2(sorted, x, LAMBDA sv, xv :
    IF sv = <<>> THEN <<xv>>
    ELSE IF compare(key, Head(sv), xv) > 0 THEN <<xv>> \o sv
    ELSE <<Head(sv)>> \o insertStable(Tail(sv), xv, key))

RECURSIVE sortFrom(_, _, _)
sortFrom(done, todo, key) ==
  With2(done, todo, LAMBDA dv, tv :
    IF tv = <<>> THEN dv
    ELSE sortFrom(insertStable(dv, Head(tv), key), Tail(tv), key))

sort(arr, key) == sortFrom(<<>>, arr, key)

\* arr[0] || null
firstOrNull(arr) == With1(arr, LAMBDA v : IF v = <<>> THEN null ELSE v[1])

\* mutation: the distance sort works on a copy and leaves arr as it was
sortedInPlace_onCopy(arr) == arr

\* lines 98-99: arr.sort((a, b) => a.distance - b.distance) sorts arr itself;
\* this is arr after the call
sortedInPlace(arr) == sort(arr, "distance")

\* mutation: the severity sort is missing, index 0 stays the nearest station
sortedWaterRisk_byDistance(waterInRadius) == waterInRadius

\* line 105: [...waterInRadius].sort(...) reads waterInRadius as line 98 left it
sortedWaterRisk(waterInRadius) == sort(waterInRadius, "waterRisk")

\* line 114: [...rainInRadius].sort(...) reads rainInRadius as line 99 left it
sortedRainRisk(rainInRadius) == sort(rainInRadius, "rainRisk")

\* the array the worst-case sort copies (waterInRadius at line 105,
\* rainInRadius at line 114): the filter's array after lines 98-99
worstSelectorInput(stations, loc, r) == sortedInPlace(radiusFilter(stations, loc, r))

\* lines 83-119
Analysis(stations, rainStations, loc, r) ==
  With2(worstSelectorInput(stations, loc, r), worstSelectorInput(rainStations, loc, r),
        LAMBDA waterInRadius, rainInRadius :
          [nearestWater |-> firstOrNull(waterInRadius),
           worstWater   |-> firstOrNull(sortedWaterRisk(waterInRadius)),
           nearestRain  |-> firstOrNull(rainInRadius),
           worstRain    |-> firstOrNull(sortedRainRisk(rainInRadius))])

(***************************************************************************)
(* RiskAnalysisCard.tsx                                                    *)
(***************************************************************************)
\* v || 0
orZero(v) == IF v = 0 THEN 0 ELSE v

\* lines 37-38
criticalWaterLevel(worstWater) ==
  IF worstWater = null THEN 0 ELSE orZero(worstWater.station.situation_level)

heavyRainAmount(worstRain) ==
  IF worstRain = null THEN 0 ELSE orZero(worstRain.station.rain_24h)

\* mutation: the heavy-rain threshold is exclusive (> 35)
riskTitle_exclusive35(level, rain) ==
  IF level = 5 THEN "HIGH_WATER"
  ELSE IF level = 4 THEN "WATCH"
  ELSE IF rain >= 90 THEN "HIGH_RAIN_FLASH_FLOOD"
  ELSE IF rain > 35 THEN "HEAVY_RAIN"
  ELSE "LOW"

\* mutation: the flash-flood rule is tested before the WATCH rule
riskTitle_rainBeforeWatch(level, rain) ==
  IF level = 5 THEN "HIGH_WATER"
  ELSE IF rain >= 90 THEN "HIGH_RAIN_FLASH_FLOOD"
  ELSE IF level = 4 THEN "WATCH"
  ELSE IF rain >= 35 THEN "HEAVY_RAIN"
  ELSE "LOW"

\* lines 43-68: the title the card shows, by the name of its category
\* (LOW = the initial riskTitle)
riskTitle(level, rain) ==
  IF level = 5 THEN "HIGH_WATER"
  ELSE IF level = 4 THEN "WATCH"
  ELSE IF rain >= 90 THEN "HIGH_RAIN_FLASH_FLOOD"
  ELSE IF rain >= 35 THEN "HEAVY_RAIN"
  ELSE "LOW"

\* mutation: the severity floor (>= 4) is missing
showWaterWarning_anyRise(nearestWater, worstWater) ==
  /\ worstWater # null
  /\ nearestWater # null
  /\ worstWater.station.id # nearestWater.station.id
  /\ worstWater.station.situation_level > nearestWater.station.situation_level

\* line 71
showWaterWarning(nearestWater, worstWater) ==
  /\ worstWater # null
  /\ nearestWater # null
  /\ worstWater.station.id # nearestWater.station.id
  /\ worstWater.station.situation_level > nearestWater.station.situation_level
  /\ worstWater.station.situation_level >= 4

\* mutation: the rain floor is inclusive (>= 35)
showRainWarning_inclusive35(nearestRain, worstRain) ==
  /\ worstRain # null
  /\ nearestRain # null
  /\ worstRain.station.id # nearestRain.station.id
  /\ worstRain.station.rain_24h >= 35
  /\ worstRain.station.rain_24h > nearestRain.station.rain_24h

\* line 72
showRainWarning(nearestRain, worstRain) ==
  /\ worstRain # null
  /\ nearestRain # null
  /\ worstRain.station.id # nearestRain.station.id
  /\ worstRain.station.rain_24h > 35
  /\ worstRain.station.rain_24h > nearestRain.station.rain_24h

\* mutation: the early return on a missing nearestWater is gone
RiskAnalysisCard_noEarlyReturn(props) ==
  With1(props, LAMBDA a :
    [category         |-> riskTitle(criticalWaterLevel(a.worstWater), heavyRainAmount(a.worstRain)),
     showWaterWarning |-> showWaterWarning(a.nearestWater, a.worstWater),
     showRainWarning  |-> showRainWarning(a.nearestRain, a.worstRain)])

\* lines 19-72: what the card renders from its props
RiskAnalysisCard(props) ==
  With1(props, LAMBDA a :
    IF a.nearestWater = null
      THEN [category |-> "INSUFFICIENT_DATA", showWaterWarning |-> FALSE, showRainWarning |-> FALSE]
      ELSE [category         |-> riskTitle(criticalWaterLevel(a.worstWater), heavyRainAmount(a.worstRain)),
            showWaterWarning |-> showWaterWarning(a.nearestWater, a.worstWater),
            showRainWarning  |-> showRainWarning(a.nearestRain, a.worstRain)])

\* mutation: the distance sort is applied to the list the memo was handed
leftByAnalysis_sortedInput(stations, loc, r) ==
  With1(sort(withDistance(stations, loc), "distance"), LAMBDA a :
    [i \in 1 .. Len(a) |-> a[i].station])

\* lines 87-99: a station list as the memo leaves it.  map (lines 87, 92)
\* returns a new array and filter another one; the sorts of lines 98-99 work
\* in place on that last array, the spreads of lines 105 and 114 on copies.
leftByAnalysis(stations, loc, r) == stations

\* the two lists after a recomputation of the memo for loc and r
DataAfterAnalysis(loc, r) ==
  /\ allStations' = leftByAnalysis(allStations, loc, r)
  /\ allRainStations' = leftByAnalysis(allRainStations, loc, r)

\* lines 72-80: the stations handed to the map; includes() of a province
\* name is equality here, no name of the model being part of another
displayedStations(stations, provinceName) ==
  IF provinceName = ALL_PROVINCES_KEY THEN stations
  ELSE SelectSeq(stations, LAMBDA s : s.province_name = provinceName)

\* mutation: the memo filters the list the map displays
analysisInput_displayed(stations, provinceName) == displayedStations(stations, provinceName)

\* lines 87, 92: the list the memo maps over is allStations / allRainStations,
\* whatever province is selected
analysisInput(stations, provinceName) == stations

\* mutation: the memo keeps its value (a dependency is missing from line 119)
Render_staleMemo == UNCHANGED <<analysis, card>>

\* a render: the memo keeps its value while its four dependencies (line 119)
\* have theirs and is recomputed from the state otherwise; the card is
\* rendered from the memo
Render ==
  /\ analysis' =
       IF <<allStations', allRainStations', userLocation', radius'>>
            = <<allStations, allRainStations, userLocation, radius>>
         THEN analysis
         ELSE Analysis(analysisInput(allStations', selectedProvinceName'),
                       analysisInput(allRainStations', selectedProvinceName'),
                       userLocation', radius')
  /\ card' = RiskAnalysisCard(analysis')

(***************************************************************************)
(* The analysis as a function of its four dependencies.  The station lists *)
(* are any data set the feeds can deliver; the reference point and the     *)
(* radius start at their useState values (DEFAULT_PROVINCE, 10 km) and     *)
(* change through the two actions.                                         *)
(***************************************************************************)
InitAnalysis ==
  /\ distances = DistanceTable
  /\ allStations \in WaterLists(MaxStations, WaterSites)
  /\ allRainStations \in RainLists(MaxStations - Len(allStations), RainSites)
  /\ userLocation = DefaultLocation
  /\ radius = 10
  /\ analysis = Analysis(allStations, allRainStations, userLocation, radius)
  /\ card = RiskAnalysisCard(analysis)
  /\ loading = FALSE
  /\ lastUpdated = 1
  /\ viewMode = "split"
  /\ showWater = TRUE
  /\ showRain = TRUE
  /\ pending = <<>>
  /\ lastResolved = [overtaken |-> FALSE, waterFailed |-> FALSE, rainFailed |-> FALSE,
                     hadStations |-> FALSE, waterData |-> allStations,
                     rainData |-> allRainStations, at |-> lastUpdated]
  /\ selectedProvinceName = DEFAULT_PROVINCE.name
  /\ isLocating = FALSE
  /\ geolocation = TRUE
  /\ locateRequest = [status |-> "none", coords |-> [lat |-> 0, lng |-> 0]]
  /\ alert = ""
  /\ nearby = NoNearby

\* the radius dependency changes (line 119)
RecomputeOnRadius ==
  /\ \E r \in RadiusValues \ {radius} : radius' = r
  /\ UNCHANGED <<userLocation, distances>>
  /\ DataAfterAnalysis(userLocation', radius')
  /\ UNCHANGED uiVars
  /\ Render

\* the userLocation dependency changes (line 119)
RecomputeOnLocation ==
  /\ \E p \in ReferencePoints \ {userLocation} : userLocation' = p
  /\ UNCHANGED <<radius, distances>>
  /\ DataAfterAnalysis(userLocation', radius')
  /\ UNCHANGED uiVars
  /\ Render

NextAnalysis == RecomputeOnRadius \/ RecomputeOnLocation

SpecAnalysis == InitAnalysis /\ [][NextAnalysis]_vars

(***************************************************************************)
(* The App: data loading, the controls and the analysis they feed          *)
(***************************************************************************)
\* most loadData calls in flight at once (the refresh button stays enabled
\* while a load runs)
MaxPending == 2

\* the clock readings new Date() can give
MaxClock == 2

WaterSite(id) == CHOOSE s \in WaterSites : s.id = id

RainSite(id) == CHOOSE s \in RainSites : s.id = id

\* the southern stations a water response can carry (none, one, two)
WaterFeeds ==
  { <<>>,
    <<WaterLevelData(WaterSite(1), 4)>>,
    <<WaterLevelData(WaterSite(2), 5), WaterLevelData(WaterSite(1), 3)>> }

\* the southern stations a rain response can carry
RainFeeds ==
  { <<>>,
    <<RainData(RainSite(1), 0), RainData(RainSite(2), 90)>> }

\* a station outside the south, and a southern one without coordinates
ForeignSite ==
  [id |-> 8, tele_station_lat |-> 137563, tele_station_long |-> 1005018, province_name |-> "Bangkok"]

UnplacedSite ==
  [id |-> 9, tele_station_lat |-> 0, tele_station_long |-> 0, province_name |-> "SuratThani"]

\* what fetch() can come to: a rejection (network error), a response that is
\* not ok, or an ok response with the stations of the whole country
Responses(feeds, others) ==
  { [rejected |-> TRUE, ok |-> FALSE, data |-> <<>>],
    [rejected |-> FALSE, ok |-> FALSE, data |-> <<>>] }
  \cup { [rejected |-> FALSE, ok |-> TRUE, data |-> others \o f] : f \in feeds }

WaterResponses ==
  Responses(WaterFeeds, <<WaterLevelData(ForeignSite, 5), WaterLevelData(UnplacedSite, 5)>>)

RainResponses ==
  Responses(RainFeeds, <<RainData(ForeignSite, 90), RainData(UnplacedSite, 90)>>)

\* the fetch threw, or the response was not ok and the service threw
failed(response) == response.rejected \/ ~response.ok

\* waterService.ts lines 11-13
isSouthernProvince(provinceName) == \E p \in SOUTHERN_PROVINCES : p.name = provinceName

\* waterService.ts lines 24-28 / 46-50
southernData(data) ==
  SelectSeq(data, LAMBDA item :
    /\ isSouthernProvince(item.province_name)
    /\ item.tele_station_lat # 0
    /\ item.tele_station_long # 0)

\* waterService.ts lines 15-35: the value the promise resolves to
fetchWaterData(response) == IF failed(response) THEN <<>> ELSE southernData(response.data)

\* waterService.ts lines 37-57
fetchRainData(response) == IF failed(response) THEN <<>> ELSE southernData(response.data)

\* mutation: an empty result leaves the list that was loaded before
resolvedList_keepOnEmpty(data, current) == IF data = <<>> THEN current ELSE data

\* lines 61-62: setAllStations(waterData), setAllRainStations(rainData)
resolvedList(data, current) == data

\* mutation: loading stays on while another call is in flight
loadingAfter_whileInFlight(remaining) == remaining # <<>>

\* line 67: setLoading(false), whatever else is in flight
loadingAfter(remaining) == FALSE

\* the values the radius slider reaches in the model (min and max)
SliderValues == {10, 50}

\* where the pin can be dragged to
DragTargets == {DefaultLocation, PinLocation, PinEastLocation}

\* the positions the browser can report
ReportedPositions == {PinLocation, PinEastLocation}

NoRequest == [status |-> "none", coords |-> [lat |-> 0, lng |-> 0]]

NoLoad ==
  [overtaken |-> FALSE, waterFailed |-> FALSE, rainFailed |-> FALSE, hadStations |-> FALSE,
   waterData |-> <<>>, rainData |-> <<>>, at |-> 0]

\* the calls in flight once call i of them has ended: the older ones have
\* been overtaken
withoutCall(calls, i) ==
  [j \in 1 .. (Len(calls) - 1) |-> IF j < i THEN TRUE ELSE calls[j + 1]]

\* useState initial values, and the mount effect's loadData call in flight
Init ==
  /\ distances = DistanceTable
  /\ allStations = <<>>
  /\ allRainStations = <<>>
  /\ userLocation = [lat |-> DEFAULT_PROVINCE.lat, lng |-> DEFAULT_PROVINCE.lng]
  /\ radius = 10
  /\ analysis = Analysis(allStations, allRainStations, userLocation, radius)
  /\ card = RiskAnalysisCard(analysis)
  /\ loading = TRUE
  /\ lastUpdated = 0
  /\ viewMode = "split"
  /\ showWater = TRUE
  /\ showRain = TRUE
  /\ pending = <<FALSE>>
  /\ lastResolved = NoLoad
  /\ selectedProvinceName = DEFAULT_PROVINCE.name
  /\ isLocating = FALSE
  /\ geolocation = TRUE
  /\ locateRequest = NoRequest
  /\ alert = ""
  /\ nearby = NoNearby

\* lines 54-56: loadData up to its await (the refresh button, line 215)
loadData ==
  /\ Len(pending) < MaxPending
  /\ pending' = Append(pending, FALSE)
  /\ loading' = TRUE
  /\ UNCHANGED <<allStations, allRainStations, userLocation, radius, distances,
                 lastUpdated, lastResolved, viewVars, locateVars, nearby>>
  /\ Render

\* lines 57-67: the Promise.all of one call resolved; both fetches catch their
\* own errors and resolve to [], so every call comes here.  waterData and
\* rainData are what the two promises resolved to, waterResponse and
\* rainResponse the fetch outcomes behind them.
loadDataResolved ==
  /\ lastUpdated < MaxClock
  /\ UNCHANGED <<userLocation, radius, distances, viewVars, locateVars, nearby>>
  /\ \E waterData \in { fetchWaterData(r) : r \in WaterResponses },
        rainData \in { fetchRainData(r) : r \in RainResponses } :
       /\ allStations' = leftByAnalysis(resolvedList(waterData, allStations), userLocation, radius)
       /\ allRainStations' =
            leftByAnalysis(resolvedList(rainData, allRainStations), userLocation, radius)
       /\ Render
       /\ \E waterResponse \in { r \in WaterResponses : fetchWaterData(r) = waterData },
             rainResponse \in { r \in RainResponses : fetchRainData(r) = rainData },
             call \in 1 .. Len(pending),
             now \in (lastUpdated + 1) .. MaxClock :
            /\ lastUpdated' = now
            /\ loading' = loadingAfter(withoutCall(pending, call))
            /\ pending' = withoutCall(pending, call)
            /\ lastResolved' = [overtaken |-> pending[call],
                                waterFailed |-> failed(waterResponse),
                                rainFailed |-> failed(rainResponse),
                                hadStations |-> allStations # <<>>,
                                waterData |-> waterData,
                                rainData |-> rainData,
                                at |-> now]

\* line 335: the radius slider
setRadius ==
  /\ \E r \in SliderValues \ {radius} : radius' = r
  /\ UNCHANGED <<userLocation, distances>>
  /\ DataAfterAnalysis(userLocation', radius')
  /\ UNCHANGED uiVars
  /\ Render

\* lines 179-181: the pin was dragged
handleUserLocationChange ==
  /\ \E loc \in DragTargets \ {userLocation} : userLocation' = loc
  /\ UNCHANGED <<radius, distances>>
  /\ DataAfterAnalysis(userLocation', radius')
  /\ UNCHANGED uiVars
  /\ Render

\* lines 188-190
toggleMapMaximize ==
  /\ viewMode' = IF viewMode = "map" THEN "split" ELSE "map"
  /\ UNCHANGED <<allStations, allRainStations, userLocation, radius, distances,
                 loadVars, showWater, showRain, locateVars, nearby>>
  /\ Render

\* lines 192-194
toggleAnalysisMaximize ==
  /\ viewMode' = IF viewMode = "analysis" THEN "split" ELSE "analysis"
  /\ UNCHANGED <<allStations, allRainStations, userLocation, radius, distances,
                 loadVars, showWater, showRain, locateVars, nearby>>
  /\ Render

\* line 351
setShowWater ==
  /\ showWater' = ~showWater
  /\ UNCHANGED <<allStations, allRainStations, userLocation, radius, distances,
                 loadVars, viewMode, showRain, locateVars, nearby>>
  /\ Render

\* line 363
setShowRain ==
  /\ showRain' = ~showRain
  /\ UNCHANGED <<allStations, allRainStations, userLocation, radius, distances,
                 loadVars, viewMode, showWater, locateVars, nearby>>
  /\ Render

Next ==
  \/ loadData
  \/ loadDataResolved
  \/ setRadius
  \/ handleUserLocationChange
  \/ toggleMapMaximize
  \/ toggleAnalysisMaximize
  \/ setShowWater
  \/ setShowRain

Spec == Init /\ [][Next]_vars

(***************************************************************************)
(* The App: the province selector and the locate button                    *)
(***************************************************************************)
UnsupportedText == "Geolocation is not supported by your browser"

UnableText == "Unable to retrieve your location. Please use the map pin manually."

\* the App as mounted, in a browser with or without navigator.geolocation
InitControls ==
  /\ distances = DistanceTable
  /\ allStations = <<>>
  /\ allRainStations = <<>>
  /\ userLocation = [lat |-> DEFAULT_PROVINCE.lat, lng |-> DEFAULT_PROVINCE.lng]
  /\ radius = 10
  /\ analysis = Analysis(allStations, allRainStations, userLocation, radius)
  /\ card = RiskAnalysisCard(analysis)
  /\ loading = TRUE
  /\ lastUpdated = 0
  /\ viewMode = "split"
  /\ showWater = TRUE
  /\ showRain = TRUE
  /\ pending = <<FALSE>>
  /\ lastResolved = NoLoad
  /\ selectedProvinceName = DEFAULT_PROVINCE.name
  /\ isLocating = FALSE
  /\ geolocation \in BOOLEAN
  /\ locateRequest = NoRequest
  /\ alert = ""
  /\ nearby = NoNearby

\* lines 166-177: the province selector changed (its options are ALL and the
\* entries of SOUTHERN_PROVINCES, so the find of line 172 succeeds)
handleProvinceChange ==
  /\ \E provinceName \in ({ALL_PROVINCES_KEY} \cup { p.name : p \in SOUTHERN_PROVINCES })
                           \ {selectedProvinceName} :
       /\ selectedProvinceName' = provinceName
       /\ userLocation' =
            IF provinceName = ALL_PROVINCES_KEY THEN [lat |-> 85000, lng |-> 995000]
            ELSE LET province == CHOOSE p \in SOUTHERN_PROVINCES : p.name = provinceName
                 IN [lat |-> province.lat, lng |-> province.lng]
  /\ UNCHANGED <<radius, distances>>
  /\ DataAfterAnalysis(userLocation', radius')
  /\ UNCHANGED <<loadVars, viewVars, isLocating, geolocation, locateRequest, alert, nearby>>
  /\ Render

\* lines 143-150: the locate button (disabled while isLocating, line 250)
handleLocateMe ==
  /\ ~isLocating
  /\ IF ~geolocation
       THEN /\ alert' = UnsupportedText
            /\ UNCHANGED <<isLocating, locateRequest>>
       ELSE /\ isLocating' = TRUE
            /\ locateRequest' = [status |-> "pending", coords |-> NoRequest.coords]
            /\ UNCHANGED alert
  /\ UNCHANGED <<userLocation, radius, distances>>
  /\ DataAfterAnalysis(userLocation', radius')
  /\ UNCHANGED <<loadVars, viewVars, selectedProvinceName, geolocation, nearby>>
  /\ Render

\* lines 151-157: the success callback of getCurrentPosition
locateSucceeded ==
  /\ locateRequest.status = "pending"
  /\ \E position \in ReportedPositions :
       /\ locateRequest' = [status |-> "position", coords |-> position]
       /\ userLocation' = [lat |-> position.lat, lng |-> position.lng]
  /\ isLocating' = FALSE
  /\ UNCHANGED <<radius, distances>>
  /\ DataAfterAnalysis(userLocation', radius')
  /\ UNCHANGED <<loadVars, viewVars, selectedProvinceName, geolocation, alert, nearby>>
  /\ Render

\* mutation: the error callback leaves the spinner on
locateFailed_keepsLocating ==
  /\ locateRequest.status = "pending"
  /\ locateRequest' = [status |-> "error", coords |-> NoRequest.coords]
  /\ alert' = UnableText
  /\ UNCHANGED <<isLocating, userLocation, radius, distances>>
  /\ DataAfterAnalysis(userLocation', radius')
  /\ UNCHANGED <<loadVars, viewVars, selectedProvinceName, geolocation, nearby>>
  /\ Render

\* lines 158-162: the error callback of getCurrentPosition
locateFailed ==
  /\ locateRequest.status = "pending"
  /\ locateRequest' = [status |-> "error", coords |-> NoRequest.coords]
  /\ alert' = UnableText
  /\ isLocating' = FALSE
  /\ UNCHANGED <<userLocation, radius, distances>>
  /\ DataAfterAnalysis(userLocation', radius')
  /\ UNCHANGED <<loadVars, viewVars, selectedProvinceName, geolocation, nearby>>
  /\ Render

NextControls ==
  \/ loadDataResolved
  \/ handleProvinceChange
  \/ handleLocateMe
  \/ locateSucceeded
  \/ locateFailed
  \/ handleUserLocationChange
  \/ setRadius

SpecControls == InitControls /\ [][NextControls]_vars

(***************************************************************************)
(* geoUtils.ts: findNearbyRainStations                                     *)
(***************************************************************************)
\* most rain stations in a list handed to findNearbyRainStations
MaxNearby == 6

\* the default of the parameter radiusKm
DefaultRadiusKm == 50

\* the end of slice(0, 5)
NearbyLimit == 5

\* rain station k of a list: the stations stand on the four sites in turn,
\* so that stations k and k + 4 are equally far from every point
SiteOfStation(k) ==
  CASE k % 4 = 1 -> WaterSite(1)
    [] k % 4 = 2 -> RainSite(1)
    [] k % 4 = 3 -> WaterSite(2)
    [] k % 4 = 0 -> RainSite(2)

NearbyStation(k) ==
  [id |-> k, tele_station_lat |-> SiteOfStation(k).tele_station_lat,
   tele_station_long |-> SiteOfStation(k).tele_station_long,
   province_name |-> SiteOfStation(k).province_name, rain_24h |-> 10 * k]

\* stations 1 .. n, starting with station k + 1
Rotated(n, k) == [i \in 1 .. n |-> NearbyStation(((i + k - 1) % n) + 1)]

Reversed(seq) == [i \in 1 .. Len(seq) |-> seq[Len(seq) + 1 - i]]

\* the lists of the model: up to MaxNearby stations, in each rotation of
\* their order and its reverse
NearbyLists ==
  {<<>>} \cup UNION { { Rotated(n, k), Reversed(Rotated(n, k)) } :
                        n \in 1 .. MaxNearby, k \in 0 .. MaxNearby - 1 }

\* the radius arguments of the model
NearbyRadii == {0, 10, DefaultRadiusKm}

\* line 74: item.distance <= radiusKm
nearbyWithinRadius(item, radiusKm) == FLeq(item.distance, radiusKm)

\* mutation: the sort is missing
closestFirst_unsorted(items) == items

\* line 75: .sort((a, b) => a.distance - b.distance)
closestFirst(items) == sort(items, "distance")

\* line 76: .slice(0, 5)
sliceToLimit(items) ==
  With1(items, LAMBDA a : SubSeq(a, 1, IF Len(a) < NearbyLimit THEN Len(a) ELSE NearbyLimit))

\* lines 63-77
findNearbyRainStations(userLoc, stations, radiusKm) ==
  With2(withDistance(stations, userLoc), FromInt(radiusKm), LAMBDA mapped, rv :
    sliceToLimit(closestFirst(SelectSeq(mapped, LAMBDA item : nearbyWithinRadius(item, rv)))))

\* the inputs of a call: any list of the model and any reference point; the
\* rest of the App as after a load of that list
InitNearby ==
  /\ distances = DistanceTable
  /\ allStations = <<>>
  /\ allRainStations \in NearbyLists
  /\ userLocation \in ReferencePoints
  /\ radius = 10
  /\ analysis = Analysis(allStations, allRainStations, userLocation, radius)
  /\ card = RiskAnalysisCard(analysis)
  /\ loading = FALSE
  /\ lastUpdated = 1
  /\ viewMode = "split"
  /\ showWater = TRUE
  /\ showRain = TRUE
  /\ pending = <<>>
  /\ lastResolved = [overtaken |-> FALSE, waterFailed |-> FALSE, rainFailed |-> FALSE,
                     hadStations |-> FALSE, waterData |-> allStations,
                     rainData |-> allRainStations, at |-> lastUpdated]
  /\ selectedProvinceName = DEFAULT_PROVINCE.name
  /\ isLocating = FALSE
  /\ geolocation = TRUE
  /\ locateRequest = [status |-> "none", coords |-> [lat |-> 0, lng |-> 0]]
  /\ alert = ""
  /\ nearby = NoNearby

\* a call findNearbyRainStations(userLocation, allRainStations), with the
\* third argument given or left to its default
findNearbyRainStationsCalled ==
  /\ \E given \in BOOLEAN :
       \E radiusKm \in (IF given THEN NearbyRadii ELSE {DefaultRadiusKm}) :
         nearby' = [called |-> TRUE, given |-> given, radiusKm |-> radiusKm,
                    items |-> findNearbyRainStations(userLocation, allRainStations, radiusKm)]
  /\ UNCHANGED <<allStations, allRainStations, userLocation, radius, analysis, card,
                 distances, loadVars, viewVars, locateVars>>

NextNearby == findNearbyRainStationsCalled

SpecNearby == InitNearby /\ [][NextNearby]_vars

(***************************************************************************)
(* Vocabulary of the properties                                            *)
(***************************************************************************)
\* distance from the reference point to a station of the lists
Dist(s) == distanceTo(userLocation, s.tele_station_lat, s.tele_station_long)

InRadius(s) == FLeq(Dist(s), FromInt(radius))

\* the indices, in a station list, of the stations within the radius
InRadiusIdx(stations) ==
  With1(FromInt(radius), LAMBDA limit :
    { i \in 1 .. Len(stations) : FLeq(Dist(stations[i]), limit) })

\* the stations of a filtered array, in its order
StationsOf(arr) == With1(arr, LAMBDA a : [i \in 1 .. Len(a) |-> a[i].station])

\* the index of a station in its list (ids are unique within a list)
IndexOf(stations, s) == CHOOSE i \in 1 .. Len(stations) : stations[i] = s

IsSelection(x, stations) ==
  /\ \E i \in InRadiusIdx(stations) : stations[i] = x.station
  /\ x.distance = Dist(x.station)
  /\ FLeq(x.distance, FromInt(radius))

Present(x) == x # null

\* C1: the category is the six-rule cascade, first match wins: no nearest
\* water -> INSUFFICIENT_DATA; worst water severity 5 -> HIGH_WATER; 4 -> WATCH;
\* worst rain present and >= 90 -> HIGH_RAIN_FLASH_FLOOD; present and >= 35 ->
\* HEAVY_RAIN; else LOW.
C1_CategoryIsCascade ==
  LET ww == analysis.worstWater
      wr == analysis.worstRain
  IN card.category =
       IF ~Present(analysis.nearestWater) THEN "INSUFFICIENT_DATA"
       ELSE IF Present(ww) /\ ww.station.situation_level = 5 THEN "HIGH_WATER"
       ELSE IF Present(ww) /\ ww.station.situation_level = 4 THEN "WATCH"
       ELSE IF Present(wr) /\ wr.station.rain_24h >= 90 THEN "HIGH_RAIN_FLASH_FLOOD"
       ELSE IF Present(wr) /\ wr.station.rain_24h >= 35 THEN "HEAVY_RAIN"
       ELSE "LOW"

\* a severity below 4 with a worst rain of exactly 35 mm: rule 5 decides
C1_Witness ==
  /\ Present(analysis.worstWater)
  /\ analysis.worstWater.station.situation_level = 2
  /\ Present(analysis.worstRain)
  /\ analysis.worstRain.station.rain_24h = 35
  /\ card.category = "HEAVY_RAIN"

\* C2: a station of the input list is in the radius-filtered set iff its
\* distance to the reference point is <= radius (inclusive boundary).
C2_FilterIffWithinRadius ==
  /\ With1(radiusFilter(allStations, userLocation, radius), LAMBDA kept :
        \A i \in 1 .. Len(allStations) :
          (\E j \in 1 .. Len(kept) : kept[j].station = allStations[i])
          <=> FLeq(Dist(allStations[i]), FromInt(radius)))
  /\ With1(radiusFilter(allRainStations, userLocation, radius), LAMBDA kept :
        \A i \in 1 .. Len(allRainStations) :
          (\E j \in 1 .. Len(kept) : kept[j].station = allRainStations[i])
          <=> FLeq(Dist(allRainStations[i]), FromInt(radius)))

\* a station at exactly the radius (0 km from the reference, radius 0) is
\* kept, and another one of the list is left out
C2_Witness ==
  /\ radius = 0
  /\ Len(allStations) = 2
  /\ With1(radiusFilter(allStations, userLocation, radius), LAMBDA kept :
        Len(kept) = 1 /\ kept[1].distance = FromInt(radius))
  /\ Present(analysis.nearestWater)

\* C3: each of the four selector results, when present, is a station of the
\* filtered set of its kind with its own distance, and that distance <= radius.
C3_SelectionsWithinRadius ==
  /\ Present(analysis.nearestWater) => IsSelection(analysis.nearestWater, allStations)
  /\ Present(analysis.worstWater) => IsSelection(analysis.worstWater, allStations)
  /\ Present(analysis.nearestRain) => IsSelection(analysis.nearestRain, allRainStations)
  /\ Present(analysis.worstRain) => IsSelection(analysis.worstRain, allRainStations)

\* a selection is made while a more severe water station lies outside the radius
C3_Witness ==
  /\ Present(analysis.nearestWater)
  /\ Present(analysis.worstWater)
  /\ \E i \in 1 .. Len(allStations) :
       /\ ~InRadius(allStations[i])
       /\ allStations[i].situation_level > analysis.worstWater.station.situation_level

\* nearest of a list: of minimum distance in the radius, the earliest of the
\* input list among those of that distance
IsNearest(x, stations) ==
  With1(InRadiusIdx(stations), LAMBDA idx :
    IF idx = {} THEN x = null
    ELSE /\ Present(x)
         /\ \E i \in idx :
              /\ stations[i] = x.station
              /\ \A j \in idx :
                   /\ FLeq(Dist(stations[i]), Dist(stations[j]))
                   /\ (Dist(stations[j]) = Dist(stations[i]) => i <= j))

\* C4: nearest is a station of minimum distance in the filtered set, the
\* earliest of the input list among those of that minimum distance.
C4_NearestMinDistanceEarliest ==
  /\ IsNearest(analysis.nearestWater, allStations)
  /\ IsNearest(analysis.nearestRain, allRainStations)

\* two water stations at the same distance, the one of the larger id first
C4_Witness ==
  /\ Len(allStations) = 2
  /\ InRadiusIdx(allStations) = {1, 2}
  /\ Dist(allStations[1]) = Dist(allStations[2])
  /\ allStations[1].id > allStations[2].id
  /\ analysis.nearestWater.station = allStations[1]

\* C5: worstWater has the maximum severity, worstRain the maximum rain_24h,
\* among the stations of its kind within the radius.
C5_WorstHasMaxMetric ==
  /\ With1(InRadiusIdx(allStations), LAMBDA idx :
        idx # {} =>
          /\ Present(analysis.worstWater)
          /\ \A j \in idx :
               analysis.worstWater.station.situation_level >= allStations[j].situation_level)
  /\ With1(InRadiusIdx(allRainStations), LAMBDA idx :
        idx # {} =>
          /\ Present(analysis.worstRain)
          /\ \A j \in idx :
               analysis.worstRain.station.rain_24h >= allRainStations[j].rain_24h)

\* the rainier of two rain stations in radius is the farther one
C5_Witness ==
  /\ Present(analysis.nearestRain)
  /\ Present(analysis.worstRain)
  /\ analysis.worstRain.station.rain_24h > analysis.nearestRain.station.rain_24h
  /\ FLess(analysis.nearestRain.distance, analysis.worstRain.distance)

\* C6: among the water stations in radius that share the highest severity,
\* worstWater is the one with the smallest distance.
C6_WorstWaterClosestOfTies ==
  Present(analysis.worstWater) =>
    \A j \in InRadiusIdx(allStations) :
      allStations[j].situation_level = analysis.worstWater.station.situation_level
        => FLeq(analysis.worstWater.distance, Dist(allStations[j]))

\* two water stations of the same severity in radius, the farther one first
\* in the list, the closer one selected
C6_Witness ==
  /\ Len(allStations) = 2
  /\ InRadiusIdx(allStations) = {1, 2}
  /\ allStations[1].situation_level = allStations[2].situation_level
  /\ FLess(Dist(allStations[2]), Dist(allStations[1]))
  /\ analysis.worstWater.station = allStations[2]

\* the indices of the rain stations in radius that have the highest rain_24h
TopRainIdx ==
  With1(InRadiusIdx(allRainStations), LAMBDA idx :
    { i \in idx : \A j \in idx : allRainStations[i].rain_24h >= allRainStations[j].rain_24h })

\* C7 as stated: among the rain stations in radius that share the highest
\* rain_24h, worstRain is the earliest of the input list.
C7_Original ==
  Present(analysis.worstRain) =>
    \A j \in TopRainIdx : IndexOf(allRainStations, analysis.worstRain.station) <= j

\* C7 amended: among the rain stations in radius that share the highest
\* rain_24h, worstRain is the one of smallest distance, and the earliest of the
\* input list among those that share that distance too.
C7_WorstRainClosestOfTies ==
  Present(analysis.worstRain) =>
    With2(TopRainIdx, IndexOf(allRainStations, analysis.worstRain.station), LAMBDA top, w :
      /\ w \in top
      /\ \A j \in top :
           /\ FLeq(analysis.worstRain.distance, Dist(allRainStations[j]))
           /\ Dist(allRainStations[j]) = analysis.worstRain.distance => w <= j)

\* two rain stations with the same rain in radius, the farther one first in
\* the list, the closer one selected
C7_Witness ==
  /\ Len(allRainStations) = 2
  /\ InRadiusIdx(allRainStations) = {1, 2}
  /\ allRainStations[1].rain_24h = allRainStations[2].rain_24h
  /\ FLess(Dist(allRainStations[2]), Dist(allRainStations[1]))
  /\ analysis.worstRain.station = allRainStations[2]

\* the filter's output lists the stations in radius in the order of the list
FilterKeepsOrder(stations) ==
  StationsOf(radiusFilter(stations, userLocation, radius)) = SelectSeq(stations, InRadius)

\* arr is in ascending order of distance
AscendingDistance(arr) ==
  With1(arr, LAMBDA a :
    \A i, j \in 1 .. Len(a) : i < j => FLeq(a[i].distance, a[j].distance))

\* arr holds the elements of the filter's output, and those of equal distance
\* in the order the filter gave them
StableRearrangement(arr, out) ==
  With2(arr, out, LAMBDA a, o :
    /\ Len(a) = Len(o)
    /\ \A k \in 1 .. Len(o) : \E i \in 1 .. Len(a) : a[i] = o[k]
    /\ \A k, l \in 1 .. Len(o) :
         (k < l /\ o[k].distance = o[l].distance) =>
           \E i, j \in 1 .. Len(a) : i < j /\ a[i] = o[k] /\ a[j] = o[l])

\* C8 as stated: the filter's output keeps the order of the input list, and
\* this input-ordered sequence is what the worst-case selector receives.
C8_Original ==
  /\ FilterKeepsOrder(allStations)
  /\ FilterKeepsOrder(allRainStations)
  /\ worstSelectorInput(allStations, userLocation, radius)
       = radiusFilter(allStations, userLocation, radius)
  /\ worstSelectorInput(allRainStations, userLocation, radius)
       = radiusFilter(allRainStations, userLocation, radius)

\* C8 amended: the filter's output keeps the order of the input list and is
\* what the nearest sort receives; the worst-case selector receives that array
\* after the nearest sort rearranged it in place: in ascending order of
\* distance, stations of equal distance in input order.
C8_WorstSelectorGetsDistanceOrder ==
  /\ FilterKeepsOrder(allStations)
  /\ FilterKeepsOrder(allRainStations)
  /\ AscendingDistance(worstSelectorInput(allStations, userLocation, radius))
  /\ AscendingDistance(worstSelectorInput(allRainStations, userLocation, radius))
  /\ StableRearrangement(worstSelectorInput(allStations, userLocation, radius),
                         radiusFilter(allStations, userLocation, radius))
  /\ StableRearrangement(worstSelectorInput(allRainStations, userLocation, radius),
                         radiusFilter(allRainStations, userLocation, radius))

\* the filter keeps two water stations, the farther one first, and hands them
\* on in list order; the worst-case sort gets them closer one first
C8_Witness ==
  /\ Len(allStations) = 2
  /\ StationsOf(radiusFilter(allStations, userLocation, radius)) = allStations
  /\ FLess(Dist(allStations[2]), Dist(allStations[1]))
  /\ StationsOf(worstSelectorInput(allStations, userLocation, radius))
       = <<allStations[2], allStations[1]>>

\* the highest severity among the water stations in radius is l
WorstSeverityInRadiusIs(l) ==
  With1(InRadiusIdx(allStations), LAMBDA idx :
    /\ \E i \in idx : allStations[i].situation_level = l
    /\ \A i \in idx : allStations[i].situation_level <= l)

\* C9: when a water station is in radius and the worst water severity is 4,
\* the category is WATCH whatever the rain data is.
C9_Severity4IsWatch ==
  WorstSeverityInRadiusIs(4) => card.category = "WATCH"

\* worst severity 4 together with a rain station of >= 90 mm in radius
C9_Witness ==
  /\ WorstSeverityInRadiusIs(4)
  /\ \E i \in InRadiusIdx(allRainStations) : allRainStations[i].rain_24h >= 90
  /\ card.category = "WATCH"

\* C10: with no water station within the radius the category is
\* INSUFFICIENT_DATA, whatever the rain stations in radius report.
C10_NoWaterIsInsufficientData ==
  InRadiusIdx(allStations) = {} => card.category = "INSUFFICIENT_DATA"

\* no water station in radius, a rain station of >= 90 mm in radius
C10_Witness ==
  /\ InRadiusIdx(allStations) = {}
  /\ \E i \in InRadiusIdx(allRainStations) : allRainStations[i].rain_24h >= 90
  /\ card.category = "INSUFFICIENT_DATA"

\* C11 as stated: whenever the category is INSUFFICIENT_DATA, no station of
\* any kind (neither water nor rain) lies within the radius.
C11_Original ==
  card.category = "INSUFFICIENT_DATA" =>
    /\ InRadiusIdx(allStations) = {}
    /\ InRadiusIdx(allRainStations) = {}

\* the card shows its no-station message while the water list has a station,
\* out of the radius, and a rain station lies within the radius
C11_Witness ==
  /\ card.category = "INSUFFICIENT_DATA"
  /\ Len(allStations) > 0
  /\ InRadiusIdx(allRainStations) # {}
  /\ Present(analysis.nearestRain)

\* C12 as stated: for every radius <= 0 (0 included) both filtered sets are
\* empty and the category is INSUFFICIENT_DATA.
C12_Original ==
  radius <= 0 =>
    /\ radiusFilter(allStations, userLocation, radius) = <<>>
    /\ radiusFilter(allRainStations, userLocation, radius) = <<>>
    /\ card.category = "INSUFFICIENT_DATA"

\* the stations of a list that lie on the reference point itself
AtReference(stations) ==
  SelectSeq(stations, LAMBDA s : Dist(s) = FZero)

\* C12 amended: for every radius < 0 both filtered sets are empty and the
\* category is INSUFFICIENT_DATA; for radius 0 the filtered set of a kind
\* holds exactly the stations at distance 0, and the category is
\* INSUFFICIENT_DATA iff no water station is at distance 0.
C12_NonPositiveRadius ==
  /\ radius < 0 =>
       /\ radiusFilter(allStations, userLocation, radius) = <<>>
       /\ radiusFilter(allRainStations, userLocation, radius) = <<>>
       /\ card.category = "INSUFFICIENT_DATA"
  /\ radius = 0 =>
       /\ StationsOf(radiusFilter(allStations, userLocation, radius)) = AtReference(allStations)
       /\ StationsOf(radiusFilter(allRainStations, userLocation, radius))
            = AtReference(allRainStations)
       /\ (card.category = "INSUFFICIENT_DATA") <=> (AtReference(allStations) = <<>>)

\* radius 0, a severity-5 water station on the reference point: it is kept
\* and the card reports it
C12_Witness ==
  /\ radius = 0
  /\ Len(AtReference(allStations)) = 1
  /\ Present(analysis.nearestWater)
  /\ analysis.nearestWater.distance = FZero
  /\ card.category = "HIGH_WATER"

\* diverges of a kind, from the two selections and their danger metrics
Diverges(nearest, worst, nearestMetric, worstMetric, aboveFloor) ==
  /\ Present(worst)
  /\ Present(nearest)
  /\ worst.station.id # nearest.station.id
  /\ aboveFloor
  /\ worstMetric > nearestMetric

DivergesWater ==
  /\ Present(analysis.worstWater)
  /\ Present(analysis.nearestWater)
  /\ Diverges(analysis.nearestWater, analysis.worstWater,
              analysis.nearestWater.station.situation_level,
              analysis.worstWater.station.situation_level,
              analysis.worstWater.station.situation_level >= 4)

DivergesRain ==
  /\ Present(analysis.worstRain)
  /\ Present(analysis.nearestRain)
  /\ Diverges(analysis.nearestRain, analysis.worstRain,
              analysis.nearestRain.station.rain_24h,
              analysis.worstRain.station.rain_24h,
              analysis.worstRain.station.rain_24h > 35)

\* C13: diverges of a kind is: worst and nearest both present, ids differ,
\* worst's metric above the floor (severity >= 4; rain_24h > 35) and strictly
\* above nearest's metric.  The two expressions of the card have this value
\* for every analysis, the card that renders them shows it, and a worst rain
\* station of exactly 35 mm raises no rain divergence.
C13_DivergesPerKind ==
  /\ showWaterWarning(analysis.nearestWater, analysis.worstWater) <=> DivergesWater
  /\ showRainWarning(analysis.nearestRain, analysis.worstRain) <=> DivergesRain
  /\ Present(analysis.nearestWater) =>
       /\ card.showWaterWarning <=> DivergesWater
       /\ card.showRainWarning <=> DivergesRain
  /\ (Present(analysis.worstRain) /\ analysis.worstRain.station.rain_24h = 35) =>
       ~card.showRainWarning

\* the card is rendered with HEAVY_RAIN from a worst rain station of exactly
\* 35 mm that is not the nearest one and is rainier than it: no divergence
C13_Witness ==
  /\ card.category = "HEAVY_RAIN"
  /\ Present(analysis.worstRain)
  /\ analysis.worstRain.station.rain_24h = 35
  /\ analysis.worstRain.station.id # analysis.nearestRain.station.id
  /\ analysis.nearestRain.station.rain_24h < 35
  /\ ~card.showRainWarning

\* C14: the category follows the worst station: a severity-5 water station in
\* radius gives HIGH_WATER whatever the nearest one reports; when the nearest
\* has a lower severity than a farther severity-5 station, nearestWater is
\* still the closer one and water diverges.
C14_CategoryFollowsWorst ==
  /\ (\E i \in InRadiusIdx(allStations) : allStations[i].situation_level = 5) =>
       /\ card.category = "HIGH_WATER"
       /\ analysis.worstWater.station.situation_level = 5
  /\ \A i, j \in InRadiusIdx(allStations) :
       ( /\ allStations[j].situation_level = 5
         /\ allStations[i].situation_level < 5
         /\ FLess(Dist(allStations[i]), Dist(allStations[j]))
         /\ analysis.nearestWater.station = allStations[i] ) =>
           /\ FLess(analysis.nearestWater.distance, analysis.worstWater.distance)
           /\ analysis.worstWater.station = allStations[j]
           /\ card.showWaterWarning

\* two water stations in radius, the closer one of severity 3, the farther
\* one of severity 5
C14_Witness ==
  /\ Len(allStations) = 2
  /\ Present(analysis.nearestWater)
  /\ analysis.nearestWater.station.situation_level = 3
  /\ analysis.worstWater.station.situation_level = 5
  /\ FLess(analysis.nearestWater.distance, analysis.worstWater.distance)
  /\ card.category = "HIGH_WATER"
  /\ card.showWaterWarning

\* C15: when the nearest water station has the highest severity among the
\* water stations in radius (in particular when it is the only one), worstWater
\* is that same station with the same distance, and water does not diverge.
C15_NearestWorstCoincide ==
  ( /\ Present(analysis.nearestWater)
    /\ \A i \in InRadiusIdx(allStations) :
         allStations[i].situation_level <= analysis.nearestWater.station.situation_level ) =>
      /\ analysis.worstWater = analysis.nearestWater
      /\ ~card.showWaterWarning
      /\ ~showWaterWarning(analysis.nearestWater, analysis.worstWater)

\* a single severity-5 water station on the reference point, radius 10
C15_Witness ==
  /\ userLocation = DefaultLocation
  /\ radius = 10
  /\ Len(allStations) = 1
  /\ allStations[1].situation_level = 5
  /\ Present(analysis.nearestWater)
  /\ analysis.nearestWater.distance = FZero
  /\ analysis.worstWater = analysis.nearestWater
  /\ card.category = "HIGH_WATER"

\* C16: a list that is empty or has no station within the radius yields an
\* empty filtered set and null nearest and worst; with no water station in
\* radius the category is INSUFFICIENT_DATA.
C16_NothingInRadiusIsNull ==
  /\ InRadiusIdx(allStations) = {} =>
       /\ radiusFilter(allStations, userLocation, radius) = <<>>
       /\ analysis.nearestWater = null
       /\ analysis.worstWater = null
       /\ card.category = "INSUFFICIENT_DATA"
  /\ InRadiusIdx(allRainStations) = {} =>
       /\ radiusFilter(allRainStations, userLocation, radius) = <<>>
       /\ analysis.nearestRain = null
       /\ analysis.worstRain = null

\* both lists hold stations, none of them within a positive radius
C16_Witness ==
  /\ radius > 0
  /\ Len(allStations) > 0
  /\ Len(allRainStations) > 0
  /\ InRadiusIdx(allStations) = {}
  /\ InRadiusIdx(allRainStations) = {}
  /\ analysis.nearestWater = null
  /\ analysis.worstRain = null
  /\ card.category = "INSUFFICIENT_DATA"

\* the filtered set of a list at each radius of the model, for the reference
\* point of the state: pairs <<radius, stations kept>>
FilteredByRadius(stations) ==
  { With1(radiusFilter(stations, userLocation, r), LAMBDA kept :
            <<r, { kept[i].station : i \in 1 .. Len(kept) }>>) : r \in RadiusValues }

Monotone(byRadius) ==
  \A p, q \in byRadius : p[1] <= q[1] => p[2] \subseteq q[2]

\* C17: for a fixed reference point and fixed lists, r1 <= r2 implies that
\* every station of the filtered set for r1 is in the filtered set for r2.
C17_RadiusMonotone ==
  /\ Monotone(FilteredByRadius(allStations))
  /\ Monotone(FilteredByRadius(allRainStations))

\* the radius was enlarged to 50 km and the filtered water set grew from one
\* station (at 10 km) to two
C17_Witness ==
  /\ radius = 50
  /\ Len(radiusFilter(allStations, userLocation, 10)) = 1
  /\ Len(radiusFilter(allStations, userLocation, 50)) = 2
  /\ StationsOf(radiusFilter(allStations, userLocation, 50)) = allStations

\* C19: running the filter / nearest / worst computation leaves allStations
\* and allRainStations unchanged in content and order (every step of the
\* analysis recomputes the memo and none of them sets the lists).
C19_InputsUnchanged ==
  [][allStations' = allStations /\ allRainStations' = allRainStations]_vars

\* the memo was recomputed for a new radius or reference point and put the
\* second station of the water list first in its sorted array; the list still
\* has the farther station first
C19_Witness ==
  /\ radius # 10 \/ userLocation # DefaultLocation
  /\ Len(allStations) = 2
  /\ InRadiusIdx(allStations) = {1, 2}
  /\ FLess(Dist(allStations[2]), Dist(allStations[1]))
  /\ analysis.nearestWater.station = allStations[2]
  /\ StationsOf(worstSelectorInput(allStations, userLocation, radius))
       = <<allStations[2], allStations[1]>>

\* the points of the model: reference points and station sites
ModelPoints ==
  ReferencePoints \cup { [lat |-> q[1], lng |-> q[2]] : q \in SitePositions }

\* calculateDistance(P, P) over the points of the model
SelfDistances ==
  { calculateDistance(p.lat, p.lng, p.lat, p.lng) : p \in ModelPoints }

\* the stations of a list that stand on the reference point
OnReference(stations) ==
  { i \in 1 .. Len(stations) :
      /\ stations[i].tele_station_lat = userLocation.lat
      /\ stations[i].tele_station_long = userLocation.lng }

\* C20: calculateDistance(P, P) is exactly 0 for every point P, so a station
\* located at the reference point has distance 0 (and is within every
\* radius >= 0, where the analysis reports it with distance 0).
C20_SelfDistanceZero ==
  /\ SelfDistances = {FZero}
  /\ \A i \in OnReference(allStations) :
       /\ Dist(allStations[i]) = FZero
       /\ radius >= 0 =>
            /\ Present(analysis.nearestWater)
            /\ analysis.nearestWater.distance = FZero
  /\ \A i \in OnReference(allRainStations) : Dist(allRainStations[i]) = FZero

\* a water station stands on the reference point: the analysis reports it as
\* nearest with distance 0, even at radius 0
C20_Witness ==
  /\ radius = 0
  /\ OnReference(allStations) # {}
  /\ Present(analysis.nearestWater)
  /\ analysis.nearestWater.station.tele_station_lat = userLocation.lat
  /\ analysis.nearestWater.station.tele_station_long = userLocation.lng
  /\ analysis.nearestWater.distance = FZero

\* C18: the four selector results and the category are a function of
\* (reference point, radius, water list, rain list): in every state of the
\* App, whatever was evaluated before, whatever loading, viewMode, showWater,
\* showRain are and whenever the data arrived, they are the values Analysis
\* and RiskAnalysisCard give for the four inputs of that state.
C18_FunctionOfInputs ==
  /\ analysis = Analysis(allStations, allRainStations, userLocation, radius)
  /\ card = RiskAnalysisCard(analysis)

\* a later evaluation: the data of a second load, another radius and pin
\* position, the analysis panel maximised, both layers hidden, a refresh
\* running
C18_Witness ==
  /\ lastUpdated = MaxClock
  /\ loading
  /\ viewMode = "analysis"
  /\ ~showWater
  /\ ~showRain
  /\ radius = 50
  /\ userLocation = PinEastLocation
  /\ Len(allStations) = 2
  /\ card.category = "HIGH_WATER"
  /\ card.showWaterWarning

\* calculateDistance with its two points exchanged, over the pairs of the
\* distance table
ReverseDistanceTable ==
  { <<p, q, calculateDistance(q[1], q[2], p.lat, p.lng)>> :
      p \in ReferencePoints \cup ProvinceCentres, q \in SitePositions }

\* C21: distance(A, B) equals distance(B, A) for all points A and B, and is
\* never negative (so no distance the analysis reports is negative).
C21_SymmetricNonNegative ==
  /\ ReverseDistanceTable = DistanceTable
  /\ \A t \in distances : t[3].m >= 0
  /\ \A x \in {analysis.nearestWater, analysis.worstWater,
                analysis.nearestRain, analysis.worstRain} :
       Present(x) => x.distance.m >= 0

\* the pin differs from the nearest rain station in latitude and longitude;
\* the distance reported is positive and is the distance from the station back
C21_Witness ==
  /\ Present(analysis.nearestRain)
  /\ analysis.nearestRain.station.tele_station_lat # userLocation.lat
  /\ analysis.nearestRain.station.tele_station_long # userLocation.lng
  /\ analysis.nearestRain.distance.m > 0
  /\ \E t \in ReverseDistanceTable :
       /\ t[1] = userLocation
       /\ t[2] = <<analysis.nearestRain.station.tele_station_lat,
                    analysis.nearestRain.station.tele_station_long>>
       /\ t[3] = analysis.nearestRain.distance

\* the values of the province selector
ProvinceNames == {ALL_PROVINCES_KEY} \cup { p.name : p \in SOUTHERN_PROVINCES }

\* the list handed to the map holds the stations of the selected province
\* (all of them for ALL) and no other
MapGetsProvince(stations) ==
  With1(displayedStations(stations, selectedProvinceName), LAMBDA shown :
    \A i \in 1 .. Len(stations) :
      (\E j \in 1 .. Len(shown) : shown[j] = stations[i])
      <=> (selectedProvinceName = ALL_PROVINCES_KEY
           \/ stations[i].province_name = selectedProvinceName))

\* C22: for a fixed reference point, radius and loaded lists, the four
\* selector results and the category are the same for every selected province,
\* ALL included: the selection filters the lists handed to the map, and the
\* analysis runs over all loaded stations.
C22_ProvinceIndependent ==
  /\ \A provinceName \in ProvinceNames :
       With1(Analysis(analysisInput(allStations, provinceName),
                      analysisInput(allRainStations, provinceName), userLocation, radius),
             LAMBDA a : a = analysis /\ RiskAnalysisCard(a).category = card.category)
  /\ analysis = Analysis(allStations, allRainStations, userLocation, radius)
  /\ MapGetsProvince(allStations)
  /\ MapGetsProvince(allRainStations)

\* another province was selected and the pin dragged back: the nearest water
\* station the card reports is of a province the map does not display
C22_Witness ==
  /\ selectedProvinceName = "NakhonSiThammarat"
  /\ Present(analysis.nearestWater)
  /\ analysis.nearestWater.station.province_name = "SuratThani"
  /\ \A j \in 1 .. Len(displayedStations(allStations, selectedProvinceName)) :
       displayedStations(allStations, selectedProvinceName)[j] # analysis.nearestWater.station
  /\ Len(displayedStations(allStations, selectedProvinceName)) = 1
  /\ card.category = "LOW"

\* what the App shows is what the call that ended last delivered
ShowsLastResolved ==
  lastResolved # NoLoad =>
    /\ allStations = lastResolved.waterData
    /\ allRainStations = lastResolved.rainData
    /\ lastUpdated = lastResolved.at

\* a step in which a loadData call ends (each one takes a new clock reading)
LoadEnds == lastUpdated' # lastUpdated

\* C23: loadData calls can overlap (the refresh button stays enabled); when
\* they do, every call that ends sets loading to false although another is
\* still in flight, and the lists and lastUpdated that remain are those of the
\* call that ended last, even when that call was started before one that
\* ended earlier.
C23_OverlappingLoads ==
  /\ []ShowsLastResolved
  /\ [][LoadEnds => /\ ~loading'
                     /\ Len(pending') = Len(pending) - 1
                     /\ allStations' = lastResolved'.waterData
                     /\ allRainStations' = lastResolved'.rainData
                     /\ lastUpdated' = lastResolved'.at]_vars

\* the call that ended last had been overtaken by a later one, a third call
\* is still in flight, and loading is false
C23_Witness ==
  /\ lastResolved.overtaken
  /\ pending # <<>>
  /\ ~loading
  /\ lastUpdated = lastResolved.at
  /\ allStations = lastResolved.waterData
  /\ Len(allStations) = 2

\* a failed fetch resolves to the empty list, for every outcome of fetch()
FailureGivesEmptyList ==
  /\ \A r \in WaterResponses : failed(r) => fetchWaterData(r) = <<>>
  /\ \A r \in RainResponses : failed(r) => fetchRainData(r) = <<>>

\* the state a call leaves when it ends
EndsWithFailuresEmptied ==
  /\ ~loading'
  /\ lastUpdated' > lastUpdated
  /\ lastResolved'.waterFailed =>
       (allStations' = <<>> /\ card'.category = "INSUFFICIENT_DATA")
  /\ lastResolved'.rainFailed => (allRainStations' = <<>>)

\* C24: fetchWaterData and fetchRainData resolve to the empty list on a
\* network error or a response that is not ok; the call that ends then
\* replaces the list of that kind by the empty list and takes a new
\* lastUpdated, so that after a failed water fetch the category is
\* INSUFFICIENT_DATA whatever was loaded before; loading is false after every
\* call that ends.
C24_FailedFetchEmptiesList ==
  /\ [](/\ FailureGivesEmptyList
        /\ lastResolved.waterFailed =>
             /\ allStations = <<>>
             /\ card.category = "INSUFFICIENT_DATA"
             /\ lastUpdated = lastResolved.at
        /\ lastResolved.rainFailed =>
             /\ allRainStations = <<>>
             /\ lastUpdated = lastResolved.at)
  /\ [][LoadEnds => EndsWithFailuresEmptied]_vars

\* water stations were loaded; the water fetch of the next call failed while
\* its rain fetch delivered stations
C24_Witness ==
  /\ lastResolved.waterFailed
  /\ lastResolved.hadStations
  /\ ~lastResolved.rainFailed
  /\ allStations = <<>>
  /\ Len(allRainStations) = 2
  /\ lastUpdated = MaxClock
  /\ card.category = "INSUFFICIENT_DATA"
  /\ ~loading

\* isLocating is on exactly while a getCurrentPosition call awaits its
\* callback; without navigator.geolocation no call is ever made
LocatingWhileRequested ==
  /\ isLocating <=> (locateRequest.status = "pending")
  /\ ~geolocation => (~isLocating /\ locateRequest = NoRequest)

\* the step of a callback of getCurrentPosition
LocateAnswered == locateRequest.status = "pending" /\ locateRequest'.status # "pending"

\* the step of a click on the locate button without navigator.geolocation
LocateUnsupported == alert' = UnsupportedText /\ alert # UnsupportedText

LocateLeavesData ==
  /\ radius' = radius
  /\ allStations' = allStations
  /\ allRainStations' = allRainStations

\* C25: a locate request that fails, and a click without geolocation
\* support, leave userLocation, radius and the station lists as they were and
\* isLocating false; isLocating is true only from the start of a request to
\* the one callback that answers it; on success userLocation becomes the
\* position reported.
C25_LocateOutcomes ==
  /\ []LocatingWhileRequested
  /\ [][LocateAnswered =>
          /\ isLocating /\ ~isLocating'
          /\ LocateLeavesData
          /\ (locateRequest'.status = "error") => (userLocation' = userLocation)
          /\ (locateRequest'.status = "position") => (userLocation' = locateRequest'.coords)]_vars
  /\ [][LocateUnsupported =>
          /\ ~isLocating /\ ~isLocating'
          /\ LocateLeavesData
          /\ userLocation' = userLocation]_vars
  /\ [][(~isLocating /\ isLocating') =>
          /\ locateRequest'.status = "pending"
          /\ LocateLeavesData
          /\ userLocation' = userLocation]_vars

\* the request made after ALL was selected failed: the reference point is
\* still the centre of the south and the button is enabled again
C25_Witness ==
  /\ locateRequest.status = "error"
  /\ alert = UnableText
  /\ ~isLocating
  /\ selectedProvinceName = ALL_PROVINCES_KEY
  /\ userLocation = AllProvincesLocation
  /\ lastUpdated > 0

\* the category of the card at each radius of the model, for the lists and
\* the reference point of the state: pairs <<radius, category>>
CategoryByRadius ==
  { <<r, RiskAnalysisCard(Analysis(allStations, allRainStations, userLocation, r)).category>> :
      r \in RadiusValues }

\* the place of a category in the order of the rules
RuleOrder(category) ==
  CASE category = "HIGH_WATER" -> 1
    [] category = "WATCH" -> 2
    [] category = "HIGH_RAIN_FLASH_FLOOD" -> 3
    [] category = "HEAVY_RAIN" -> 4
    [] category = "LOW" -> 5
    [] category = "INSUFFICIENT_DATA" -> 6

\* C26: for a fixed reference point and fixed lists (severities in 1..5), if
\* r1 <= r2 and the category at r1 is not INSUFFICIENT_DATA, then the category
\* at r2 is the same or one matched by an earlier rule in the order HIGH_WATER,
\* WATCH, HIGH_RAIN_FLASH_FLOOD, HEAVY_RAIN, LOW.
C26_CategoryMonotoneInRadius ==
  With1(CategoryByRadius, LAMBDA byRadius :
    \A p, q \in byRadius :
      (p[1] <= q[1] /\ p[2] # "INSUFFICIENT_DATA") =>
        (q[2] # "INSUFFICIENT_DATA" /\ RuleOrder(q[2]) <= RuleOrder(p[2])))

\* the radius was enlarged to 50 km: HEAVY_RAIN at 10 km, HIGH_WATER at 50 km
C26_Witness ==
  /\ radius = 50
  /\ <<10, "HEAVY_RAIN">> \in CategoryByRadius
  /\ <<50, "HIGH_WATER">> \in CategoryByRadius
  /\ card.category = "HIGH_WATER"

\* C27: whenever nearestWater (nearestRain) is present, at whatever radius,
\* it is the station, with the distance, that findNearestStation
\* (findNearestRainStation) returns for the full list, also among stations at
\* equal distance.
C27_NearestIsRadiusFreeNearest ==
  /\ Present(analysis.nearestWater) =>
       analysis.nearestWater = findNearestStation(userLocation, allStations)
  /\ Present(analysis.nearestRain) =>
       analysis.nearestRain = findNearestRainStation(userLocation, allRainStations)

\* two water stations equally far from the pin, the one of the larger id
\* first in the list, at the largest radius: both ways give the first
C27_Witness ==
  /\ radius = 50
  /\ Len(allStations) = 2
  /\ Dist(allStations[1]) = Dist(allStations[2])
  /\ allStations[1].id > allStations[2].id
  /\ Present(analysis.nearestWater)
  /\ analysis.nearestWater.station = allStations[1]
  /\ findNearestStation(userLocation, allStations).station = allStations[1]
  /\ Present(analysis.nearestRain)

\* nearest and worst of a kind are absent together and, when present, worst
\* has at least nearest's metric and at least nearest's distance
NearestWithWorst(nearest, worst, nearestMetric, worstMetric) ==
  /\ Present(nearest) <=> Present(worst)
  /\ (Present(nearest) /\ Present(worst)) =>
       /\ worstMetric >= nearestMetric
       /\ FLeq(nearest.distance, worst.distance)

\* C28: for each kind nearest is absent iff worst is absent, and when both
\* are present worst's metric (severity or rain_24h) is >= nearest's and
\* worst's distance is >= nearest's; so the card never gets a present
\* nearestWater with an absent worstWater.
C28_NearestAndWorstTogether ==
  /\ Present(analysis.nearestWater) <=> Present(analysis.worstWater)
  /\ Present(analysis.nearestRain) <=> Present(analysis.worstRain)
  /\ Present(analysis.nearestWater) =>
       NearestWithWorst(analysis.nearestWater, analysis.worstWater,
                        analysis.nearestWater.station.situation_level,
                        analysis.worstWater.station.situation_level)
  /\ Present(analysis.nearestRain) =>
       NearestWithWorst(analysis.nearestRain, analysis.worstRain,
                        analysis.nearestRain.station.rain_24h,
                        analysis.worstRain.station.rain_24h)

\* the worst water station is more severe and farther than the nearest one,
\* and the one rain station in radius is both nearest and worst
C28_Witness ==
  /\ Present(analysis.nearestWater)
  /\ Present(analysis.worstWater)
  /\ analysis.worstWater.station.situation_level > analysis.nearestWater.station.situation_level
  /\ FLess(analysis.nearestWater.distance, analysis.worstWater.distance)
  /\ Present(analysis.nearestRain)
  /\ analysis.worstRain = analysis.nearestRain

\* C29: whenever the card shows a divergence warning the category is
\* neither LOW nor INSUFFICIENT_DATA: a water warning comes with HIGH_WATER or
\* WATCH, a rain warning with a category other than LOW (severities in 1..5).
C29_WarningImpliesRisk ==
  /\ card.showWaterWarning => card.category \in {"HIGH_WATER", "WATCH"}
  /\ card.showRainWarning => card.category \notin {"LOW", "INSUFFICIENT_DATA"}
  /\ card.category \in {"LOW", "INSUFFICIENT_DATA"} =>
       (~card.showWaterWarning /\ ~card.showRainWarning)

\* a rain warning on a card whose category comes from the rain: the nearest
\* water station has a severity below 4, the worst rain station has more
\* than 90 mm and is not the nearest one
C29_Witness ==
  /\ radius = 50
  /\ card.showRainWarning
  /\ ~card.showWaterWarning
  /\ card.category = "HIGH_RAIN_FLASH_FLOOD"
  /\ Present(analysis.worstWater)
  /\ analysis.worstWater.station.situation_level < 4

\* the indices, in the list of the call, of the rain stations within radiusKm
NearbyInRadiusIdx ==
  With1(FromInt(nearby.radiusKm), LAMBDA limit :
    { i \in 1 .. Len(allRainStations) : FLeq(Dist(allRainStations[i]), limit) })

\* C30: findNearbyRainStations returns at most 5 entries, each a station of
\* the list with its distance, within radiusKm (inclusive; 50 when the
\* argument is left out), in ascending order of distance, and the closest
\* ones: as many as are in radius up to 5, and no in-radius station left out
\* is strictly closer than a returned one.
C30_NearbyRainStations ==
  nearby.called =>
    With2(nearby.items, NearbyInRadiusIdx, LAMBDA items, idx :
      /\ ~nearby.given => nearby.radiusKm = 50
      /\ Len(items) <= 5
      /\ Len(items) = (IF Cardinality(idx) < 5 THEN Cardinality(idx) ELSE 5)
      /\ \A k \in 1 .. Len(items) :
           /\ \E i \in idx : allRainStations[i] = items[k].station
           /\ items[k].distance = Dist(items[k].station)
           /\ FLeq(items[k].distance, FromInt(nearby.radiusKm))
      /\ \A k, l \in 1 .. Len(items) : k < l => items[k].station # items[l].station
      /\ AscendingDistance(items)
      /\ \A i \in idx :
           (\A k \in 1 .. Len(items) : items[k].station # allRainStations[i]) =>
             \A k \in 1 .. Len(items) : ~FLess(Dist(allRainStations[i]), items[k].distance))

\* six stations within the default radius, the list starting with a station
\* that is not the closest: five are returned, a closer one in front of the
\* first of the list, and the one left out is as far as the last returned
C30_Witness ==
  /\ nearby.called
  /\ ~nearby.given
  /\ Len(allRainStations) = 6
  /\ Cardinality(NearbyInRadiusIdx) = 6
  /\ Len(nearby.items) = 5
  /\ FLess(nearby.items[1].distance, Dist(allRainStations[1]))
  /\ \E i \in 1 .. 6 :
       /\ \A k \in 1 .. 5 : nearby.items[k].station # allRainStations[i]
       /\ Dist(allRainStations[i]) = nearby.items[5].distance

====
